---- MODULE Spec2Model ----
(***************************************************************************)
(* A model of conversion-table-manager.js: ConversionTable (normalizeTable, *)
(* buildRegexString, factory), ConversionTableOperations (parse, convert)   *)
(* and ConversionTableManager (register, unregister, get, find).            *)
(*                                                                          *)
(* Representation of the JavaScript values:                                 *)
(*  - a string is a sequence of one-character strings; the falsy keys       *)
(*    (undefined, null, '') are the empty sequence NoKey;                   *)
(*  - a number written as a decimal is [ip, frac]: its integer part and the *)
(*    digits after the point without trailing zeros (what toString shows);  *)
(*  - the result of convert's arithmetic is an exact fraction [n, d], or    *)
(*    NaN / Infinity when the divisor is 0;                                 *)
(*  - an object with ordered own keys (a raw or normalized table) is a      *)
(*    sequence of [key, value] entries in insertion order;                  *)
(*    Unit keys are not names of members of Object.prototype, so a lookup   *)
(*    table[key] finds an own key or undefined; the registry this.tables is *)
(*    looked up under an inherited name as well (ObjectPrototype);          *)
(*  - the term of a raw entry is TermString, TermArray or undefined; the    *)
(*    term of a normalized entry is the sequence of its strings, empty for  *)
(*    null;                                                                 *)
(*  - a returned pair [error, result] is a record [err, res], null being    *)
(*    the record null; ret is the last call and what it returned, or threw. *)
(***************************************************************************)
EXTENDS Integers, Sequences, FiniteSets, TLC

VARIABLES raw, tables, ret

vars == <<raw, tables, ret>>

-----------------------------------------------------------------------------
(* JavaScript null / undefined, and the falsy key.                          *)
null == [type |-> "null"]

undefined == [type |-> "undefined"]

NoKey == <<>>

(* Decimal numbers.                                                         *)
Dec(i, f) == [ip |-> i, frac |-> f]

RECURSIVE Pow10(_)
Pow10(k) == IF k = 0 THEN 1 ELSE 10 * Pow10(k - 1)

RECURSIVE DigitsToInt(_)
DigitsToInt(ds) ==
    IF ds = <<>> THEN 0
    ELSE 10 * DigitsToInt(SubSeq(ds, 1, Len(ds) - 1)) + ds[Len(ds)]

RECURSIVE StripZeros(_)
StripZeros(ds) ==
    IF ds # <<>> /\ ds[Len(ds)] = 0 THEN StripZeros(SubSeq(ds, 1, Len(ds) - 1))
    ELSE ds

(* Exact fractions, for the arithmetic of convert.                          *)
RECURSIVE GCD(_, _)
GCD(a, b) == IF b = 0 THEN a ELSE GCD(b, a % b)

Abs(x) == IF x < 0 THEN 0 - x ELSE x

Rat(n, d) ==
    LET g == GCD(Abs(n), d) IN [n |-> n \div g, d |-> d \div g]

ToRat(x) == Rat(x.ip * Pow10(Len(x.frac)) + DigitsToInt(x.frac), Pow10(Len(x.frac)))

NaN == [type |-> "NaN"]

Infinity(negative) == [type |-> "Infinity", neg |-> negative]

Mul(a, b) == Rat(a.n * b.n, a.d * b.d)

Add(a, b) == Rat(a.n * b.d + b.n * a.d, a.d * b.d)

Sub(a, b) == Rat(a.n * b.d - b.n * a.d, a.d * b.d)

Div(a, b) ==
    IF b.n = 0
    THEN IF a.n = 0 THEN NaN ELSE Infinity(a.n < 0)
    ELSE IF b.n < 0 THEN Rat((0 - a.n) * b.d, a.d * (0 - b.n))
         ELSE Rat(a.n * b.d, a.d * b.n)

-----------------------------------------------------------------------------
(* Objects with ordered own keys.                                           *)
Keys(obj) == [i \in 1..Len(obj) |-> obj[i].key]

HasKey(obj, k) == \E i \in 1..Len(obj) : obj[i].key = k

IndexOf(obj, k) == CHOOSE i \in 1..Len(obj) : obj[i].key = k

Lookup(obj, k) == IF HasKey(obj, k) THEN obj[IndexOf(obj, k)].value ELSE undefined

Put(obj, k, v) ==
    IF HasKey(obj, k)
    THEN [obj EXCEPT ![IndexOf(obj, k)] = [key |-> k, value |-> v]]
    ELSE Append(obj, [key |-> k, value |-> v])

-----------------------------------------------------------------------------
(* ConversionTable._parseTerm                                               *)
FirstPos(s, c) ==
    IF \E i \in 1..Len(s) : s[i] = c
    THEN CHOOSE i \in 1..Len(s) : s[i] = c /\ \A j \in 1..(i - 1) : s[j] # c
    ELSE 0

(* /^([^\(]+)\(([^\)]+)\)$/ : the groups, or <<>> when there is no match    *)
matchParentheses(term) ==
    LET p == FirstPos(term, "(")
        n == Len(term)
    IN  IF /\ p > 1
           /\ n >= p + 2
           /\ term[n] = ")"
           /\ \A j \in (p + 1)..(n - 1) : term[j] # ")"
        THEN <<SubSeq(term, 1, p - 1), SubSeq(term, p + 1, n - 1)>>
        ELSE <<>>

(* /^([^\/]+)\/(.+)$/                                                       *)
matchSlash(term) ==
    LET p == FirstPos(term, "/")
        n == Len(term)
    IN  IF p > 1 /\ n >= p + 1
        THEN <<SubSeq(term, 1, p - 1), SubSeq(term, p + 1, n)>>
        ELSE <<>>

(* The term a raw entry declares is a string, an array of strings (not     *)
(* empty) or absent (undefined).                                            *)
TermString(chars) == [type |-> "string", chars |-> chars]

TermArray(items) == [type |-> "array", items |-> items]

(* _parseTerm with the rules for 'a/b' and 'prefix(suffix)' in the other    *)
(* order                                                                    *)
parseTermSlashFirst(term) ==
    IF term.type = "array" THEN term.items
    ELSE IF term.type # "string" THEN <<>>
    ELSE IF matchSlash(term.chars) # <<>>
    THEN <<matchSlash(term.chars)[1], matchSlash(term.chars)[2]>>
    ELSE IF matchParentheses(term.chars) # <<>>
    THEN <<matchParentheses(term.chars)[1],
           matchParentheses(term.chars)[1] \o matchParentheses(term.chars)[2]>>
    ELSE IF term.chars # <<>>
    THEN <<term.chars, term.chars>>
    ELSE <<>>

(* The result is the array given, the pair [singular, plural], or the empty *)
(* sequence for null. On undefined term?.match(...) is undefined and term   *)
(* is falsy.                                                                *)
parseTerm(term) ==
    IF term.type = "array" THEN term.items
    ELSE IF term.type # "string" THEN <<>>
    ELSE IF matchParentheses(term.chars) # <<>>
    THEN <<matchParentheses(term.chars)[1],
           matchParentheses(term.chars)[1] \o matchParentheses(term.chars)[2]>>
    ELSE IF matchSlash(term.chars) # <<>>
    THEN <<matchSlash(term.chars)[1], matchSlash(term.chars)[2]>>
    ELSE IF term.chars # <<>>
    THEN <<term.chars, term.chars>>
    ELSE <<>>

-----------------------------------------------------------------------------
(* ConversionTable._roundToPrecision: parseFloat(num.toFixed(precision))    *)
RECURSIVE IncDigits(_)
IncDigits(ds) ==
    IF ds = <<>> THEN [digits |-> <<>>, carry |-> 1]
    ELSE IF ds[Len(ds)] < 9
    THEN [digits |-> [ds EXCEPT ![Len(ds)] = ds[Len(ds)] + 1], carry |-> 0]
    ELSE LET r == IncDigits(SubSeq(ds, 1, Len(ds) - 1))
         IN  [digits |-> Append(r.digits, 0), carry |-> r.carry]

roundToPrecision(num, precision) ==
    IF Len(num.frac) <= precision
    THEN Dec(num.ip, StripZeros(num.frac))
    ELSE LET kept == SubSeq(num.frac, 1, precision)
         IN  IF num.frac[precision + 1] >= 5
             THEN LET r == IncDigits(kept)
                  IN  Dec(num.ip + r.carry, StripZeros(r.digits))
             ELSE Dec(num.ip, StripZeros(kept))

(* Number.prototype.toString writes a number below 1e-6 with an exponent:  *)
(* 1e-7, 1.5e-7, 1.25e-10. LeadingZeros is the number of zeros the fraction *)
(* starts with.                                                             *)
RECURSIVE LeadingZeros(_)
LeadingZeros(ds) ==
    IF ds # <<>> /\ ds[1] = 0 THEN 1 + LeadingZeros(Tail(ds)) ELSE 0

ExponentThreshold == 6

IsExponential(num) ==
    num.ip = 0 /\ num.frac # <<>> /\ LeadingZeros(num.frac) >= ExponentThreshold

(* the text after the '.' of the exponent form, "5e-7" of 1.5e-7: the       *)
(* digits of the mantissa but the first, 'e', '-' and the exponent          *)
ExponentialFraction(num) ==
    (Len(num.frac) - LeadingZeros(num.frac) - 1) + 2
      + (IF LeadingZeros(num.frac) + 1 >= 10 THEN 2 ELSE 1)

(* ConversionTable._getPrecision: the length of what follows the '.' in     *)
(* num.toString(), 0 when it has no '.'. num is the value                   *)
(* _roundToPrecision returns: finite, without trailing zeros.               *)
getPrecision(num) ==
    IF IsExponential(num)
    THEN IF Len(num.frac) - LeadingZeros(num.frac) = 1 THEN 0
         ELSE ExponentialFraction(num)
    ELSE Len(num.frac)

Max(a, b) == IF a >= b THEN a ELSE b

Min(a, b) == IF a <= b THEN a ELSE b

(* ConversionTable._getNormalizedUnit                                       *)
getNormalizedUnit(value) ==
    [ base  |-> value.base,
      scale |-> IF value.scale = undefined THEN Dec(1, <<>>) ELSE value.scale,
      bias  |-> IF value.bias = undefined THEN Dec(0, <<>>) ELSE value.bias,
      alias |-> value.alias,
      minor |-> value.minor,
      term  |-> value.term ]

-----------------------------------------------------------------------------
(* Error values. The messages of the source embed keys and names; the model *)
(* keeps the message kind and the values embedded in it.                    *)
DuplicateBaseKey(key, baseKey) ==
    [kind |-> "Duplicate Base Key in table", key |-> key, collides |-> baseKey]

NoBaseKey == [kind |-> "No Base Key declared in table"]

ErrorNormalizing == [kind |-> "Error normalizing table"]

NoUnitsFound == [kind |-> "No units found to build regex"]

InvalidInput == [kind |-> "Invalid input format or no match found."]

ErrorParsing == [kind |-> "Error parsing input"]

UnitNotFound(unit) == [kind |-> "Unit not found.", unit |-> unit]

AlreadyRegistered(name) == [kind |-> "Table is already registered", name |-> name]

NotRegistered(name) == [kind |-> "Table is not registered.", name |-> name]

TableNotFound(name) == [kind |-> "Table not found.", name |-> name]

UnitNotFoundInTable(unit, name) ==
    [kind |-> "Unit not found in table", unit |-> unit, name |-> name]

AliasNotValid(unit) ==
    [kind |-> "Alias does not map to a valid unit in the table.", unit |-> unit]

-----------------------------------------------------------------------------
(* ConversionTable.normalizeTable                                           *)
MinPrecision == 6

RoundDigits == 15

(* normalizeEntry without the duplicate check of lines 70-75: the last      *)
(* base: true entry wins.                                                   *)
normalizeEntryLastBase(acc, i) ==
    LET key    == acc.table[i].key
        value0 == acc.table[i].value
        baseKey1 == IF value0.base THEN key ELSE acc.baseKey
    IN  IF value0.alias # NoKey /\ ~HasKey(acc.table, value0.alias)
        THEN [acc EXCEPT !.outcome = "throw", !.baseKey = baseKey1]
        ELSE
        LET table1 ==
                IF value0.alias # NoKey
                THEN Put(acc.table, value0.alias,
                         [Lookup(acc.table, value0.alias) EXCEPT !.alias = value0.alias])
                ELSE acc.table
            value ==
                IF value0.alias # NoKey THEN Lookup(table1, value0.alias) ELSE value0
            normalizedScale ==
                roundToPrecision(IF value.scale = undefined THEN Dec(1, <<>>)
                                 ELSE value.scale, RoundDigits)
            unit == getNormalizedUnit([value EXCEPT !.scale = normalizedScale,
                                                    !.term = parseTerm(value.term)])
        IN  [acc EXCEPT !.table = table1,
                        !.baseKey = baseKey1,
                        !.normalizedTable = Put(acc.normalizedTable, key, unit),
                        !.maxPrecision = Max(acc.maxPrecision, getPrecision(normalizedScale))]

(* The body of the for-in loop for the entry at position i. table is the    *)
(* caller's raw object, which line 80 writes to. The outcome is "next" (go  *)
(* on with the next key), "return" (the duplicate-base return of line 72)   *)
(* or "throw" (the TypeError of line 80 when table[value.alias] is          *)
(* undefined).                                                              *)
normalizeEntry(acc, i) ==
    LET key    == acc.table[i].key
        value0 == acc.table[i].value
        baseKey1 == IF value0.base THEN key ELSE acc.baseKey
    IN  IF value0.base /\ acc.baseKey # NoKey
        THEN [acc EXCEPT !.outcome = "return",
                         !.err = DuplicateBaseKey(key, acc.baseKey)]
        ELSE IF value0.alias # NoKey /\ ~HasKey(acc.table, value0.alias)
        THEN [acc EXCEPT !.outcome = "throw", !.baseKey = baseKey1]
        ELSE
        LET table1 ==
                IF value0.alias # NoKey
                THEN Put(acc.table, value0.alias,
                         [Lookup(acc.table, value0.alias) EXCEPT !.alias = value0.alias])
                ELSE acc.table
            value ==
                IF value0.alias # NoKey THEN Lookup(table1, value0.alias) ELSE value0
            normalizedScale ==
                roundToPrecision(IF value.scale = undefined THEN Dec(1, <<>>)
                                 ELSE value.scale, RoundDigits)
            normalizedTerm == parseTerm(value.term)
            unit == getNormalizedUnit([value EXCEPT !.scale = normalizedScale,
                                                    !.term = normalizedTerm])
        IN  [acc EXCEPT !.table = table1,
                        !.baseKey = baseKey1,
                        !.normalizedTable = Put(acc.normalizedTable, key, unit),
                        !.maxPrecision = Max(acc.maxPrecision, getPrecision(normalizedScale))]

RECURSIVE normalizeLoop(_, _)

(* normalizeTable without the base check of line 93                         *)
normalizeTableAnyBase(table) ==
    LET acc == normalizeLoop([table |-> table, normalizedTable |-> <<>>,
                              baseKey |-> NoKey, maxPrecision |-> MinPrecision,
                              outcome |-> "next", err |-> null], 1)
    IN  IF acc.outcome = "throw"
        THEN [err |-> ErrorNormalizing, res |-> null, table |-> acc.table]
        ELSE IF acc.outcome = "return"
        THEN [err |-> acc.err, res |-> null, table |-> acc.table]
        ELSE [err |-> null,
              res |-> [table |-> acc.normalizedTable,
                       base |-> acc.baseKey,
                       precision |-> Max(MinPrecision, Min(RoundDigits, acc.maxPrecision))],
              table |-> acc.table]

normalizeLoop(acc, i) ==
    IF i > Len(acc.table) \/ acc.outcome # "next" THEN acc
    ELSE normalizeLoop(normalizeEntry(acc, i), i + 1)

(* The pair returned, and the caller's raw object after the call.           *)
normalizeTable(table) ==
    LET acc == normalizeLoop([table |-> table, normalizedTable |-> <<>>,
                              baseKey |-> NoKey, maxPrecision |-> MinPrecision,
                              outcome |-> "next", err |-> null], 1)
    IN  IF acc.outcome = "throw"
        THEN [err |-> ErrorNormalizing, res |-> null, table |-> acc.table]
        ELSE IF acc.outcome = "return"
        THEN [err |-> acc.err, res |-> null, table |-> acc.table]
        ELSE IF acc.baseKey = NoKey
        THEN [err |-> NoBaseKey, res |-> null, table |-> acc.table]
        ELSE [err |-> null,
              res |-> [table |-> acc.normalizedTable,
                       base |-> acc.baseKey,
                       precision |-> Max(MinPrecision, Min(RoundDigits, acc.maxPrecision))],
              table |-> acc.table]

-----------------------------------------------------------------------------
(* ConversionTable.buildRegexString. The pattern is                         *)
(*   ^\s*(?<majorValue>\d+(?:\.\d+)?)\s*(?<majorUnit>u1|u2|...)?\s*          *)
(*   (?<minorValue>\d+(?:\.\d+)?)?\s*$                                      *)
(* and is represented by the sequence u1, u2, ... of its alternation.       *)
RegexString(units) == [alternation |-> units]

RECURSIVE MaxLenOf(_)
MaxLenOf(units) ==
    IF units = <<>> THEN 0 ELSE Max(Len(Head(units)), MaxLenOf(Tail(units)))

(* units.sort((a, b) => b.length - a.length): stable, longest first         *)
RECURSIVE sortByLength(_, _)
sortByLength(units, len) ==
    IF len = 0 THEN <<>>
    ELSE SelectSeq(units, LAMBDA u : Len(u) = len) \o sortByLength(units, len - 1)

(* the keys in the order Object.keys gives them, without the sort of line   *)
(* 117                                                                      *)
alternationUnsorted(units) == units

alternation(units) == sortByLength(units, MaxLenOf(units))

buildRegexString(table) ==
    IF Len(Keys(table)) = 0
    THEN [err |-> NoUnitsFound, res |-> null]
    ELSE [err |-> null, res |-> RegexString(alternation(Keys(table)))]

(* new ConversionTable(table, base, regexString, tableName, precision)      *)
ConversionTable(table, base, regexString, tableName, precision) ==
    [table |-> table, base |-> base, regexString |-> regexString,
     tableName |-> tableName,
     precision |-> Max(MinPrecision, Min(RoundDigits, precision))]

(* ConversionTable.factory: the pair, and the raw object after the call.    *)
(* n is [normalizeError, normalizedData] and r is [regexError, regexString]. *)
(* factoryConstruct with a pattern of the base key alone                    *)
factoryConstructBaseOnly(n, r, tableName) ==
    IF r.err # null THEN [err |-> r.err, res |-> null, table |-> n.table]
    ELSE [err |-> null,
          res |-> ConversionTable(n.res.table, n.res.base,
                                  RegexString(<<n.res.base>>), tableName,
                                  n.res.precision),
          table |-> n.table]

factoryConstruct(n, r, tableName) ==
    IF r.err # null THEN [err |-> r.err, res |-> null, table |-> n.table]
    ELSE [err |-> null,
          res |-> ConversionTable(n.res.table, n.res.base, r.res, tableName,
                                  n.res.precision),
          table |-> n.table]

factoryRegex(n, tableName) ==
    IF n.err # null THEN [err |-> n.err, res |-> null, table |-> n.table]
    ELSE factoryConstruct(n, buildRegexString(n.res.table), tableName)

factory(rawTable, tableName) == factoryRegex(normalizeTable(rawTable), tableName)

-----------------------------------------------------------------------------
(* Matching of the pattern built by buildRegexString, as the backtracking   *)
(* matcher of RegExp does it: every quantifier is greedy, an alternation    *)
(* tries its alternatives from left to right, and the match reported is the *)
(* first one found. A position is the index of the next character.          *)
Digits == {"0", "1", "2", "3", "4", "5", "6", "7", "8", "9"}

DigitValue(c) ==
    CASE c = "0" -> 0 [] c = "1" -> 1 [] c = "2" -> 2 [] c = "3" -> 3 [] c = "4" -> 4
      [] c = "5" -> 5 [] c = "6" -> 6 [] c = "7" -> 7 [] c = "8" -> 8 [] c = "9" -> 9

IsSpace(c) == c = " "

RECURSIVE DigitRunEnd(_, _)
DigitRunEnd(s, i) ==
    IF i <= Len(s) /\ s[i] \in Digits THEN DigitRunEnd(s, i + 1) ELSE i

RECURSIVE SpaceRunEnd(_, _)
SpaceRunEnd(s, i) ==
    IF i <= Len(s) /\ IsSpace(s[i]) THEN SpaceRunEnd(s, i + 1) ELSE i

(* hi, hi - 1, ..., lo                                                      *)
Descending(hi, lo) == [k \in 1..(hi - lo + 1) |-> hi - k + 1]

(* \s* at position i: the positions it can end at, longest first            *)
spaceEnds(s, i) == Descending(SpaceRunEnd(s, i), i)

(* (?:\.\d+)? after \d+ ended at d                                          *)
fractionEnds(s, d) ==
    IF d <= Len(s) /\ s[d] = "."
    THEN Descending(DigitRunEnd(s, d + 1), d + 2)
    ELSE <<>>

(* \d+(?:\.\d+)? at position i: the positions it can end at, in the order   *)
(* the matcher tries them                                                   *)
RECURSIVE numberEndsFrom(_, _, _)
numberEndsFrom(s, i, d) ==
    IF d <= i THEN <<>>
    ELSE fractionEnds(s, d) \o <<d>> \o numberEndsFrom(s, i, d - 1)

numberEnds(s, i) == numberEndsFrom(s, i, DigitRunEnd(s, i))

NoMatch == [ok |-> FALSE]

First(results) ==
    LET good == SelectSeq(results, LAMBDA r : r.ok)
    IN  IF good = <<>> THEN NoMatch ELSE Head(good)

(* \s* without the $ that anchors the pattern at the end of the input       *)
matchEndUnanchored(s, i) == TRUE

(* \s*$                                                                     *)
matchEnd(s, i) == SpaceRunEnd(s, i) = Len(s) + 1

(* (?<minorValue>\d+(?:\.\d+)?)?\s*$ : the number, longest first, then the  *)
(* empty alternative of the ?                                               *)
matchMinor(s, i) ==
    LET ends == Append(numberEnds(s, i), i)
    IN  First([k \in DOMAIN ends |->
                 [ok |-> matchEnd(s, ends[k]), minorValue |-> SubSeq(s, i, ends[k] - 1)]])

(* \s*(?<minorValue>...)?\s*$                                               *)
matchAfterUnit(s, i) ==
    LET ends == spaceEnds(s, i)
    IN  First([k \in DOMAIN ends |-> matchMinor(s, ends[k])])

StartsWith(s, i, u) ==
    /\ i + Len(u) - 1 <= Len(s)
    /\ SubSeq(s, i, i + Len(u) - 1) = u

majorUnitGroup(r, u) ==
    IF r.ok THEN [ok |-> TRUE, majorUnit |-> u, minorValue |-> r.minorValue]
    ELSE NoMatch

(* (?<majorUnit>u1|u2|...)?\s*(?<minorValue>...)?\s*$ : the alternatives    *)
(* from left to right, then the empty alternative of the ? (NoKey)          *)
matchUnit(s, i, units) ==
    LET us == Append(units, NoKey)
    IN  First([k \in DOMAIN us |->
                 IF StartsWith(s, i, us[k])
                 THEN majorUnitGroup(matchAfterUnit(s, i + Len(us[k])), us[k])
                 ELSE NoMatch])

(* \s*(?<majorUnit>...)?...                                                 *)
matchAfterMajor(s, i, units) ==
    LET ends == spaceEnds(s, i)
    IN  First([k \in DOMAIN ends |-> matchUnit(s, ends[k], units)])

majorValueGroup(r, v) ==
    IF r.ok THEN [ok |-> TRUE, majorValue |-> v, majorUnit |-> r.majorUnit,
                  minorValue |-> r.minorValue]
    ELSE NoMatch

(* (?<majorValue>\d+(?:\.\d+)?)...                                          *)
matchMajor(s, i, units) ==
    LET ends == numberEnds(s, i)
    IN  First([k \in DOMAIN ends |->
                 majorValueGroup(matchAfterMajor(s, ends[k], units),
                                 SubSeq(s, i, ends[k] - 1))])

(* input.match(regex): the groups of the match, or ok = FALSE               *)
match(s, units) ==
    LET ends == spaceEnds(s, 1)
    IN  First([k \in DOMAIN ends |-> matchMajor(s, ends[k], units)])

(* String.prototype.trim                                                    *)
RECURSIVE trimEnd(_)
trimEnd(s) ==
    IF s # <<>> /\ IsSpace(s[Len(s)]) THEN trimEnd(SubSeq(s, 1, Len(s) - 1)) ELSE s

trim(s) == trimEnd(SubSeq(s, SpaceRunEnd(s, 1), Len(s)))

(* parseFloat of a string matched by \d+(?:\.\d+)?                          *)
parseFloat(str) ==
    LET p == FirstPos(str, ".")
        ipart == IF p = 0 THEN str ELSE SubSeq(str, 1, p - 1)
        fpart == IF p = 0 THEN <<>> ELSE SubSeq(str, p + 1, Len(str))
    IN  Dec(DigitsToInt([k \in 1..Len(ipart) |-> DigitValue(ipart[k])]),
            StripZeros([k \in 1..Len(fpart) |-> DigitValue(fpart[k])]))

IsZero(num) == num.ip = 0 /\ num.frac = <<>>

-----------------------------------------------------------------------------
(* x ?? d  and  x || d  for numbers; e?.f                                   *)
Nullish(x, d) == IF x = undefined \/ x = null THEN d ELSE x

Falsy(x, d) == IF x = undefined \/ x = null \/ IsZero(x) THEN d ELSE x

OptScale(entry) == IF entry = undefined THEN undefined ELSE entry.scale

OptBias(entry) == IF entry = undefined THEN undefined ELSE entry.bias

(* the sub object of lines 242-248, for the captured minor value, the minor *)
(* key of the main unit and the entry of that key                           *)
parseSub(minorValue, minor, minorEntry) ==
    IF minorValue # <<>>
    THEN [unit  |-> minor,
          value |-> parseFloat(minorValue),
          scale |-> Falsy(OptScale(minorEntry), Dec(1, <<>>)),
          bias  |-> Falsy(OptBias(minorEntry), Dec(0, <<>>))]
    ELSE null

(* lines 235-251; a tableEntry that is undefined makes line 239 throw       *)
parseResult(m, tableEntry, resolvedUnit, conversionTable) ==
    IF tableEntry = undefined THEN [err |-> ErrorParsing, res |-> null]
    ELSE [err |-> null,
          res |-> [main |-> [unit  |-> resolvedUnit,
                             value |-> parseFloat(m.majorValue),
                             scale |-> Nullish(tableEntry.scale, Dec(1, <<>>)),
                             bias  |-> Nullish(tableEntry.bias, Dec(0, <<>>))],
                   sub  |-> parseSub(m.minorValue, tableEntry.minor,
                                     Lookup(conversionTable.table, tableEntry.minor)),
                   base |-> conversionTable.base]]

(* lines 229-233 without the assignment to resolvedUnit: the key that was   *)
(* typed is reported, not the key it is an alias of                         *)
parseAliasTypedUnit(m, tableEntry, resolvedUnit, conversionTable) ==
    IF tableEntry = undefined THEN [err |-> ErrorParsing, res |-> null]
    ELSE IF tableEntry.alias # NoKey
    THEN parseResult(m, Lookup(conversionTable.table, tableEntry.alias),
                     resolvedUnit, conversionTable)
    ELSE parseResult(m, tableEntry, resolvedUnit, conversionTable)

(* lines 229-233; a tableEntry that is undefined makes line 229 throw       *)
parseAlias(m, tableEntry, resolvedUnit, conversionTable) ==
    IF tableEntry = undefined THEN [err |-> ErrorParsing, res |-> null]
    ELSE IF tableEntry.alias # NoKey
    THEN parseResult(m, Lookup(conversionTable.table, tableEntry.alias),
                     tableEntry.alias, conversionTable)
    ELSE parseResult(m, tableEntry, resolvedUnit, conversionTable)

(* lines 222-254, for the match m of line 220                               *)
parseMatch(m, conversionTable) ==
    IF ~m.ok THEN [err |-> InvalidInput, res |-> null]
    ELSE parseAlias(m,
                    IF /\ m.majorUnit # NoKey
                       /\ HasKey(conversionTable.table, m.majorUnit)
                    THEN Lookup(conversionTable.table, m.majorUnit)
                    ELSE Lookup(conversionTable.table, conversionTable.base),
                    IF m.majorUnit # NoKey THEN m.majorUnit ELSE conversionTable.base,
                    conversionTable)

(* ConversionTableOperations.parse                                          *)
parse(input, conversionTable) ==
    parseMatch(match(trim(input), conversionTable.regexString.alternation),
               conversionTable)

(* value * scale + bias of the main or the sub object                       *)
InBase(part) == Add(Mul(ToRat(part.value), ToRat(part.scale)), ToRat(part.bias))

(* valueInBase without the sub-unit term of lines 273-275                   *)
valueInBaseMainOnly(parsed) == InBase(parsed.main)

(* lines 272-275                                                            *)
valueInBase(parsed) ==
    IF parsed.sub # null
    THEN Add(InBase(parsed.main), InBase(parsed.sub))
    ELSE InBase(parsed.main)

(* An object created by the literal {} inherits the members of              *)
(* Object.prototype; the model keeps one of them, the function Object under *)
(* the name 'constructor'. this.tables (line 288) and the normalized table  *)
(* (line 63) are such objects.                                              *)
ObjectPrototype == [constructor |-> [type |-> "function", name |-> "Object"]]

(* the name 'constructor' as a key of a table                               *)
InheritedKey == <<"c", "o", "n", "s", "t", "r", "u", "c", "t", "o", "r">>

(* table[key]: the own property, or else the inherited one                  *)
Property(table, key) ==
    IF HasKey(table, key) THEN Lookup(table, key)
    ELSE IF key = InheritedKey THEN ObjectPrototype.constructor
    ELSE undefined

(* line 277: the bias and the scale of a value that is not a unit entry are *)
(* undefined, and the arithmetic gives NaN                                  *)
convertedValue(inBase, desiredUnitData) ==
    IF "scale" \in DOMAIN desiredUnitData
    THEN Div(Sub(inBase, ToRat(desiredUnitData.bias)), ToRat(desiredUnitData.scale))
    ELSE NaN

(* lines 263-278, for the pair p that parse returned                        *)
convertParsed(p, desiredUnit, desiredUnitData) ==
    IF p.err # null THEN [err |-> p.err, res |-> null]
    ELSE IF desiredUnitData = undefined
    THEN [err |-> UnitNotFound(desiredUnit), res |-> null]
    ELSE [err |-> null,
          res |-> [unit |-> desiredUnit,
                   value |-> convertedValue(valueInBase(p.res), desiredUnitData)]]

(* ConversionTableOperations.convert                                        *)
convert(inputValue, desiredUnit, conversionTable) ==
    convertParsed(parse(inputValue, conversionTable), desiredUnit,
                  Property(conversionTable.table, desiredUnit))

(* String(value) for the value convert returns, as a template literal       *)
(* `${value}${unit}` writes it: the shortest decimal, with a leading '-'    *)
(* when negative. The values of the model have at most MaxFraction digits   *)
(* after the point.                                                         *)
MaxFraction == 9

DigitChars == <<"0", "1", "2", "3", "4", "5", "6", "7", "8", "9">>

RECURSIVE IntToString(_)
IntToString(n) ==
    IF n < 10 THEN <<DigitChars[n + 1]>>
    ELSE Append(IntToString(n \div 10), DigitChars[(n % 10) + 1])

(* the number of digits after the point of a fraction with denominator d    *)
RECURSIVE FractionLength(_, _)
FractionLength(d, k) ==
    IF Pow10(k) % d = 0 \/ k = MaxFraction THEN k ELSE FractionLength(d, k + 1)

(* the k digits after the point of m / 10^k                                 *)
RECURSIVE FractionString(_, _)
FractionString(m, k) ==
    IF k = 0 THEN <<>>
    ELSE Append(FractionString(m \div 10, k - 1), DigitChars[(m % 10) + 1])

PositiveToString(n, d, k) ==
    IntToString(n \div d)
      \o (IF k = 0 THEN <<>>
          ELSE <<".">> \o FractionString(((n % d) * Pow10(k)) \div d, k))

toString(x) ==
    IF x = NaN THEN <<"N", "a", "N">>
    ELSE IF x = Infinity(FALSE) THEN <<"I", "n", "f", "i", "n", "i", "t", "y">>
    ELSE IF x = Infinity(TRUE) THEN <<"-", "I", "n", "f", "i", "n", "i", "t", "y">>
    ELSE (IF x.n < 0 THEN <<"-">> ELSE <<>>)
           \o PositiveToString(Abs(x.n), x.d, FractionLength(x.d, 0))

-----------------------------------------------------------------------------
(* ConversionTableManager. tbls is this.tables: its own properties, name -> *)
(* ConversionTable, or undefined for a name that is not an own property.    *)
(* this.tables[name]: the own property, or else the inherited one           *)
Member(tbls, name) ==
    IF name \in DOMAIN tbls /\ tbls[name] # undefined THEN tbls[name]
    ELSE IF name \in DOMAIN ObjectPrototype THEN ObjectPrototype[name]
    ELSE undefined

(* an exception that no catch block takes: no pair is returned              *)
Thrown == [thrown |-> TRUE, err |-> null, res |-> null]

Registered(name) == [msg |-> "registered successfully.", name |-> name]

Unregistered(name) == [msg |-> "unregistered successfully.", name |-> name]

(* registerTable with line 307 before the check of line 305: what factory   *)
(* returned is stored also when it is null                                  *)
registerTableUnchecked(tbls, name, f) ==
    [err |-> f.err,
     res |-> IF f.err # null THEN null ELSE Registered(name),
     tables |-> [tbls EXCEPT ![name] = IF f.err # null THEN undefined ELSE f.res],
     table |-> f.table]

(* register: the pair, this.tables and the raw object after the call; f is  *)
(* the pair factory returned                                                *)
registerTable(tbls, name, f) ==
    IF f.err # null
    THEN [err |-> f.err, res |-> null, tables |-> tbls, table |-> f.table]
    ELSE [err |-> null, res |-> Registered(name),
          tables |-> [tbls EXCEPT ![name] = f.res], table |-> f.table]

(* register without the check of line 299                                   *)
registerAlways(tbls, name, rawTable, force) ==
    registerTable(tbls, name, factory(rawTable, name))

register(tbls, name, rawTable, force) ==
    IF Member(tbls, name) # undefined /\ ~force
    THEN [err |-> AlreadyRegistered(name), res |-> null,
          tables |-> tbls, table |-> rawTable]
    ELSE registerTable(tbls, name, factory(rawTable, name))

(* unregister with this.tables = {} in the place of line 327                *)
unregisterAll(tbls, name, verbose) ==
    IF Member(tbls, name) = undefined
    THEN IF verbose
         THEN [err |-> NotRegistered(name), res |-> null, tables |-> tbls]
         ELSE [err |-> null, res |-> null, tables |-> tbls]
    ELSE [err |-> null, res |-> Unregistered(name),
          tables |-> [n \in DOMAIN tbls |-> undefined]]

(* delete this.tables[name] removes an own property only                    *)
unregister(tbls, name, verbose) ==
    IF Member(tbls, name) = undefined
    THEN IF verbose
         THEN [err |-> NotRegistered(name), res |-> null, tables |-> tbls]
         ELSE [err |-> null, res |-> null, tables |-> tbls]
    ELSE [err |-> null, res |-> Unregistered(name),
          tables |-> [n \in DOMAIN tbls |-> IF n = name THEN undefined ELSE tbls[n]]]

get(tbls, name) ==
    IF Member(tbls, name) = undefined
    THEN [err |-> TableNotFound(name), res |-> null]
    ELSE [err |-> null, res |-> Member(tbls, name)]

(* find has no try block: the TypeError of table.table[unitKey], when the   *)
(* value found under tableName has no property table, reaches the caller.   *)
find(tbls, unitKey, tableName) ==
    LET table == Member(tbls, tableName)
        unitData0 == Lookup(table.table, unitKey)
        resolvedData == Lookup(table.table, unitData0.alias)
        unitData == IF unitData0.alias # NoKey THEN resolvedData ELSE unitData0
    IN  IF table = undefined
        THEN [err |-> TableNotFound(tableName), res |-> null]
        ELSE IF "table" \notin DOMAIN table
        THEN Thrown
        ELSE IF unitData0 = undefined
        THEN [err |-> UnitNotFoundInTable(unitKey, tableName), res |-> null]
        ELSE IF unitData0.alias # NoKey /\ resolvedData = undefined
        THEN [err |-> AliasNotValid(unitKey), res |-> null]
        ELSE [err |-> null,
              res |-> [scale |-> unitData.scale,
                       bias  |-> Nullish(unitData.bias, Dec(0, <<>>)),
                       term  |-> unitData.term]]

-----------------------------------------------------------------------------
(* The inputs the model draws from.                                         *)
MaxLen == 3

Alphabet == {"1", ".", " ", "c", "m"}

RECURSIVE StringsOfLen(_)
StringsOfLen(n) ==
    IF n = 0 THEN {<<>>}
    ELSE {Append(s, c) : s \in StringsOfLen(n - 1), c \in Alphabet}

Inputs == UNION {StringsOfLen(n) : n \in 0..MaxLen}

UnitKeys == {<<"c">>, <<"c", "m">>, <<"m">>}

(* a key no table declares                                                  *)
AbsentKey == <<"z">>

(* the names tables are registered under; the names of the registry on its  *)
(* own (SpecReg); and the names tables are looked up under                  *)
Names == {"A"}

RegistryNames == {"A", "B"}

LookupNames == DOMAIN tables \cup DOMAIN ObjectPrototype

RawSpec(base, scale, bias, alias, minor, term) ==
    [base |-> base, scale |-> scale, bias |-> bias, alias |-> alias,
     minor |-> minor, term |-> term]

Primary(base, scale, bias, minor) == RawSpec(base, scale, bias, NoKey, minor, undefined)

Term == TermString(<<"M", "(", "s", ")">>)

(* The declarations a raw entry is drawn from: a base unit, a base unit     *)
(* that declares a scale and a bias, a unit with scale 2.5, bias 3, minor   *)
(* unit m and a term, a base unit that is also an alias, and the aliases.   *)
BaseUnit == Primary(TRUE, undefined, undefined, NoKey)

ScaledBaseUnit == Primary(TRUE, Dec(0, <<>>), Dec(3, <<>>), NoKey)

ScaledUnit == RawSpec(FALSE, Dec(2, <<5>>), Dec(3, <<>>), NoKey, <<"m">>, Term)

AliasedBaseUnit == RawSpec(TRUE, undefined, undefined, <<"m">>, NoKey, undefined)

AliasOf(k) == RawSpec(FALSE, undefined, undefined, k, NoKey, undefined)

(* Units whose scale has digits beyond the sixth: 0.1234567; 5 / 9, which   *)
(* is 0.5555555555555556; 1.2000000000000002, which rounds to 1.2; and      *)
(* 0.0000001, which is written 1e-7.                                        *)
ScaleOf(scale) == Primary(FALSE, scale, undefined, NoKey)

RawSpecs ==
    {BaseUnit, ScaledBaseUnit, ScaledUnit, AliasedBaseUnit,
     AliasOf(<<"c", "m">>), AliasOf(<<"m">>), AliasOf(AbsentKey),
     ScaleOf(Dec(0, <<1, 2, 3, 4, 5, 6, 7>>)),
     ScaleOf(Dec(0, <<5, 5, 5, 5, 5, 5, 5, 5, 5, 5, 5, 5, 5, 5, 5, 6>>)),
     ScaleOf(Dec(1, <<2, 0, 0, 0, 0, 0, 0, 0, 0, 0, 0, 0, 0, 0, 0, 2>>)),
     ScaleOf(Dec(0, <<0, 0, 0, 0, 0, 0, 1>>))}

(* The tables normalizeTable is given on its own: every key order of every  *)
(* choice of keys, each entry with any of the declarations.                 *)
RECURSIVE TablesOver(_, _)
TablesOver(keys, specsOf) ==
    {<<>>} \cup
    UNION {{Append(t, [key |-> k, value |-> v]) :
               t \in TablesOver(keys \ {k}, specsOf), v \in specsOf[k]}
           : k \in keys}

AllRawTables == TablesOver(UnitKeys, [k \in UnitKeys |-> RawSpecs])

(* The tables the registry, parse and convert are exercised on: c is a unit *)
(* with a minor unit or an alias, cm a unit, an alias or a base, m a base   *)
(* or a unit; again every choice of keys in every key order.                *)
Declarations ==
    [k \in UnitKeys |->
        CASE k = <<"c">> ->
               {ScaledUnit, AliasOf(<<"c", "m">>), AliasOf(<<"m">>), AliasOf(AbsentKey)}
          [] k = <<"c", "m">> ->
               {ScaledUnit, AliasOf(<<"m">>), BaseUnit, AliasedBaseUnit}
          [] k = <<"m">> ->
               {BaseUnit, ScaledBaseUnit, ScaledUnit}]

RawTables == TablesOver(UnitKeys, Declarations)

NoTables == [n \in Names |-> undefined]

Call(op, name, input, unit, flag, arg, r) ==
    [op |-> op, name |-> name, input |-> input, unit |-> unit, flag |-> flag,
     arg |-> arg, err |-> r.err, res |-> r.res, thrown |-> "thrown" \in DOMAIN r]

(* no call is in progress and no returned pair is held by the caller       *)
Idle == Call("none", "", <<>>, NoKey, FALSE, <<>>, [err |-> null, res |-> null])

Init ==
    /\ raw \in RawTables
    /\ tables = NoTables
    /\ ret = Idle

(* Every call is made when the previous one has returned (ret.op = "none"): *)
(* the program is synchronous and single-threaded.                          *)
NormalizeTable ==
    /\ ret.op = "none"
    /\ \E r \in {normalizeTable(raw)} :
           /\ ret' = Call("normalizeTable", "", <<>>, NoKey, FALSE, raw, r)
           /\ raw' = r.table
           /\ UNCHANGED tables

Factory ==
    /\ ret.op = "none"
    /\ \E r \in {factory(raw, "")} :
           /\ ret' = Call("factory", "", <<>>, NoKey, FALSE, raw, r)
           /\ raw' = r.table
           /\ UNCHANGED tables

BuildRegexString(table) ==
    /\ ret' = Call("buildRegexString", "", <<>>, NoKey, FALSE, table, buildRegexString(table))
    /\ UNCHANGED <<raw, tables>>

(* buildRegexString on the table of a registered ConversionTable, or on {}  *)
BuildRegexOfRegistered ==
    /\ ret.op = "none"
    /\ \E name \in DOMAIN tables :
           BuildRegexString(IF tables[name] = undefined THEN <<>> ELSE tables[name].table)

(* buildRegexString on the table normalizeTable has just returned, as       *)
(* factory calls it                                                         *)
BuildRegexOfNormalized ==
    /\ ret.op = "normalizeTable"
    /\ ret.err = null
    /\ BuildRegexString(ret.res.table)

(* A register call is recorded with one more field, before: what the        *)
(* registry held under the name when the call was made.                     *)
Register ==
    /\ ret.op = "none"
    /\ \E name \in DOMAIN tables, force \in BOOLEAN :
           \E r \in {register(tables, name, raw, force)} :
               /\ ret' = Call("register", name, <<>>, NoKey, force, raw, r)
                            @@ [before |-> tables[name]]
               /\ raw' = r.table
               /\ tables' = r.tables

Unregister ==
    /\ ret.op = "none"
    /\ \E name \in LookupNames, verbose \in BOOLEAN :
           \E r \in {unregister(tables, name, verbose)} :
               /\ ret' = Call("unregister", name, <<>>, NoKey, verbose, <<>>, r)
               /\ tables' = r.tables
               /\ UNCHANGED raw

GetTable ==
    /\ ret.op = "none"
    /\ \E name \in LookupNames :
           /\ ret' = Call("get", name, <<>>, NoKey, FALSE, <<>>, get(tables, name))
           /\ UNCHANGED <<raw, tables>>

Find ==
    /\ ret.op = "none"
    /\ \E name \in LookupNames, unitKey \in UnitKeys \cup {AbsentKey} :
           /\ ret' = Call("find", name, <<>>, unitKey, FALSE, <<>>,
                          find(tables, unitKey, name))
           /\ UNCHANGED <<raw, tables>>

(* parse and convert are given a table obtained from get(name); convert is  *)
(* asked for a key, for a key of no table, or for a name every table        *)
(* inherits                                                                 *)
Parse ==
    /\ ret.op = "none"
    /\ \E name \in DOMAIN tables :
           /\ tables[name] # undefined
           /\ \E input \in Inputs :
                  /\ ret' = Call("parse", name, input, NoKey, FALSE, <<>>,
                                 parse(input, tables[name]))
                  /\ UNCHANGED <<raw, tables>>

Convert ==
    /\ ret.op = "none"
    /\ \E name \in DOMAIN tables :
           /\ tables[name] # undefined
           /\ \E input \in Inputs, desiredUnit \in UnitKeys \cup {AbsentKey, InheritedKey} :
                  /\ ret' = Call("convert", name, input, desiredUnit, FALSE, <<>>,
                                 convert(input, desiredUnit, tables[name]))
                  /\ UNCHANGED <<raw, tables>>

(* The caller converts the value it was given back to the base unit: it     *)
(* writes the value and the unit it asked for, and calls convert with the   *)
(* base key of the table. arg keeps the input of the first conversion.      *)
ConvertBack ==
    /\ ret.op = "convert"
    /\ ret.err = null
    /\ ret.arg = <<>>
    /\ \E input \in {toString(ret.res.value) \o ret.unit} :
           /\ ret' = Call("convert", ret.name, input, tables[ret.name].base, FALSE,
                          ret.input, convert(input, tables[ret.name].base, tables[ret.name]))
           /\ UNCHANGED <<raw, tables>>

(* the caller takes the returned pair; the next call can then be made      *)
Return ==
    /\ ret.op # "none"
    /\ ret' = Idle
    /\ UNCHANGED <<raw, tables>>

Next ==
    \/ NormalizeTable
    \/ Factory
    \/ BuildRegexOfRegistered
    \/ Register
    \/ Unregister
    \/ GetTable
    \/ Find
    \/ Parse
    \/ Convert
    \/ ConvertBack
    \/ Return

Spec == Init /\ [][Next]_vars

(* normalizeTable, buildRegexString and factory on their own, on every raw  *)
(* table of AllRawTables                                                    *)
InitNorm ==
    /\ raw \in AllRawTables
    /\ tables = NoTables
    /\ ret = Idle

NextNorm ==
    \/ NormalizeTable
    \/ Factory
    \/ BuildRegexOfNormalized
    \/ Return

SpecNorm == InitNorm /\ [][NextNorm]_vars

(* The registry on its own, with two names. The raw tables its callers      *)
(* declare: a base unit; a unit and a base unit; another base unit; a unit  *)
(* without a base; an alias of a key that is not declared; two base units.  *)
Entry(k, v) == [key |-> k, value |-> v]

RegistryTables ==
    {<<Entry(<<"m">>, BaseUnit)>>,
     <<Entry(<<"c">>, ScaledUnit), Entry(<<"m">>, BaseUnit)>>,
     <<Entry(<<"c", "m">>, BaseUnit)>>,
     <<Entry(<<"c">>, ScaledUnit)>>,
     <<Entry(<<"c">>, AliasOf(AbsentKey)), Entry(<<"m">>, BaseUnit)>>,
     <<Entry(<<"m">>, BaseUnit), Entry(<<"c", "m">>, BaseUnit)>>}

(* the caller writes the raw table of its next call                         *)
Declare ==
    /\ ret.op = "none"
    /\ raw' \in RegistryTables
    /\ UNCHANGED <<tables, ret>>

InitReg ==
    /\ raw \in RegistryTables
    /\ tables = [n \in RegistryNames |-> undefined]
    /\ ret = Idle

NextReg ==
    \/ Declare
    \/ Register
    \/ Unregister
    \/ GetTable
    \/ Find
    \/ Parse
    \/ Convert
    \/ Return

SpecReg == InitReg /\ [][NextReg]_vars

(* normalizeTable, factory, register and find on tables with aliases: every *)
(* key order of every choice of keys, each entry a base unit, a unit, a     *)
(* base unit that is an alias, an alias that declares a scale, a bias, a    *)
(* minor unit and a term of its own, or an alias of cm, of m or of a key    *)
(* that is not declared.                                                    *)
ScaledAlias ==
    RawSpec(FALSE, Dec(4, <<>>), Dec(1, <<>>), <<"m">>, <<"c">>,
            TermString(<<"A", "/", "B">>))

AliasSpecs ==
    {BaseUnit, ScaledUnit, AliasedBaseUnit, ScaledAlias,
     AliasOf(<<"c", "m">>), AliasOf(<<"m">>), AliasOf(AbsentKey)}

AliasTables == TablesOver(UnitKeys, [k \in UnitKeys |-> AliasSpecs])

InitAlias ==
    /\ raw \in AliasTables
    /\ tables = NoTables
    /\ ret = Idle

NextAlias ==
    \/ NormalizeTable
    \/ Factory
    \/ Register
    \/ Unregister
    \/ GetTable
    \/ Find
    \/ Return

SpecAlias == InitAlias /\ [][NextAlias]_vars

(* _parseTerm on its own, and normalizeTable on a table whose base unit     *)
(* declares the term: every string of up to MaxTermLen characters of        *)
(* TermAlphabet, an array of two strings, an array of one string, and no    *)
(* term.                                                                    *)
MaxTermLen == 5

TermAlphabet == {"a", "(", ")", "/"}

RECURSIVE TermStringsOfLen(_)
TermStringsOfLen(n) ==
    IF n = 0 THEN {<<>>}
    ELSE {Append(s, c) : s \in TermStringsOfLen(n - 1), c \in TermAlphabet}

Terms ==
    {TermString(s) : s \in UNION {TermStringsOfLen(n) : n \in 0..MaxTermLen}}
      \cup {TermArray(<<<<"a">>, <<"a", "/">>>>), TermArray(<<<<"a", "(", "a", ")">>>>),
            undefined}

TermTables ==
    {<<Entry(<<"m">>, RawSpec(TRUE, undefined, undefined, NoKey, NoKey, term))>> :
        term \in Terms}

InitTerm ==
    /\ raw \in TermTables
    /\ tables = NoTables
    /\ ret = Idle

(* _parseTerm(value.term) for an entry of the raw table, as line 84 calls it *)
ParseTerm ==
    /\ ret.op = "none"
    /\ \E i \in DOMAIN raw :
           /\ ret' = Call("parseTerm", "", <<>>, raw[i].key, FALSE, raw,
                          [err |-> null, res |-> [term |-> parseTerm(raw[i].value.term)]])
           /\ UNCHANGED <<raw, tables>>

NextTerm ==
    \/ ParseTerm
    \/ NormalizeTable
    \/ Return

SpecTerm == InitTerm /\ [][NextTerm]_vars

-----------------------------------------------------------------------------
(* The earlier ConversionTable of unnamed/part_000, a singleton that is its *)
(* own registry. this.tables[name] is { instance }, and instance is the one *)
(* object ConversionTable.instance() returns: every name that holds an      *)
(* entry holds a reference to it, so tables maps each such name to the      *)
(* value the instance has now.                                              *)
NotRegisteredSingleton(name) == [kind |-> "Conversion table not registered", name |-> name]

(* { ...undefined } has no properties                                       *)
NoProperties == RawSpec(FALSE, undefined, undefined, NoKey, NoKey, undefined)

Spread(value) == IF value = undefined THEN NoProperties ELSE value

singletonNormalizeEntry(table, value) ==
    IF value.base
    THEN [value EXCEPT !.scale = Dec(1, <<>>),
                       !.bias = Nullish(value.bias, Dec(0, <<>>))]
    ELSE IF value.alias # NoKey
    THEN [Spread(Lookup(table, value.alias)) EXCEPT !.alias = value.alias]
    ELSE [value EXCEPT !.scale = Nullish(value.scale, Dec(1, <<>>)),
                       !.bias = Nullish(value.bias, Dec(0, <<>>))]

singletonNormalizeTable(table) ==
    [i \in DOMAIN table |->
        [key |-> table[i].key, value |-> singletonNormalizeEntry(table, table[i].value)]]

(* the pattern of buildRegex: the unit is not optional                      *)
singletonBuildRegex(table) ==
    [alternation |-> alternation(Keys(table)), majorUnit |-> "required"]

(* instance.table and instance.regexString after lines 75-76                *)
singletonInstance(table) ==
    [table |-> singletonNormalizeTable(table),
     regexString |-> singletonBuildRegex(singletonNormalizeTable(table))]

singletonRegister(tbls, name, table, force) ==
    IF tbls[name] # undefined /\ ~force
    THEN [err |-> AlreadyRegistered(name), res |-> null, tables |-> tbls]
    ELSE [err |-> null, res |-> [value |-> TRUE],
          tables |-> [n \in DOMAIN tbls |->
                         IF n = name \/ tbls[n] # undefined
                         THEN [instance |-> singletonInstance(table)]
                         ELSE undefined]]

(* unregister returns a message, not a pair                                 *)
singletonUnregister(tbls, name) ==
    IF tbls[name] # undefined
    THEN [err |-> null, res |-> Unregistered(name),
          tables |-> [tbls EXCEPT ![name] = undefined]]
    ELSE [err |-> null, res |-> NotRegistered(name), tables |-> tbls]

singletonGet(tbls, name) ==
    IF tbls[name] = undefined
    THEN [err |-> NotRegisteredSingleton(name), res |-> null]
    ELSE [err |-> null, res |-> [table |-> tbls[name].instance.table]]

singletonRegex(tbls, name) ==
    IF tbls[name] = undefined
    THEN [err |-> NotRegisteredSingleton(name), res |-> null]
    ELSE [err |-> null, res |-> tbls[name].instance.regexString]

singletonFindUnit(unitData, unitName, tableName) ==
    IF unitData = undefined
    THEN [err |-> UnitNotFoundInTable(unitName, tableName), res |-> null]
    ELSE [err |-> null,
          res |-> [unitData EXCEPT !.scale = Nullish(unitData.scale, Dec(1, <<>>)),
                                   !.bias = Nullish(unitData.bias, Dec(0, <<>>))]]

singletonFindIn(tableInstance, unitName, tableName) ==
    IF Lookup(tableInstance, unitName) # undefined
       /\ Lookup(tableInstance, unitName).alias # NoKey
    THEN IF Lookup(tableInstance, Lookup(tableInstance, unitName).alias) = undefined
         THEN [err |-> AliasNotValid(unitName), res |-> null]
         ELSE singletonFindUnit(Lookup(tableInstance, Lookup(tableInstance, unitName).alias),
                                unitName, tableName)
    ELSE singletonFindUnit(Lookup(tableInstance, unitName), unitName, tableName)

singletonFind(tbls, unitName, tableName) ==
    IF singletonGet(tbls, tableName).err # null
    THEN singletonGet(tbls, tableName)
    ELSE singletonFindIn(singletonGet(tbls, tableName).res.table, unitName, tableName)

InitSingleton ==
    /\ raw \in RegistryTables
    /\ tables = [n \in RegistryNames |-> undefined]
    /\ ret = Idle

SingletonRegister ==
    /\ ret.op = "none"
    /\ \E name \in DOMAIN tables, force \in BOOLEAN :
           \E r \in {singletonRegister(tables, name, raw, force)} :
               /\ ret' = Call("singleton.register", name, <<>>, NoKey, force, raw, r)
               /\ tables' = r.tables
               /\ UNCHANGED raw

SingletonUnregister ==
    /\ ret.op = "none"
    /\ \E name \in DOMAIN tables :
           \E r \in {singletonUnregister(tables, name)} :
               /\ ret' = Call("singleton.unregister", name, <<>>, NoKey, FALSE, <<>>, r)
               /\ tables' = r.tables
               /\ UNCHANGED raw

SingletonGet ==
    /\ ret.op = "none"
    /\ \E name \in DOMAIN tables :
           /\ ret' = Call("singleton.get", name, <<>>, NoKey, FALSE, <<>>,
                          singletonGet(tables, name))
           /\ UNCHANGED <<raw, tables>>

SingletonRegex ==
    /\ ret.op = "none"
    /\ \E name \in DOMAIN tables :
           /\ ret' = Call("singleton.regex", name, <<>>, NoKey, FALSE, <<>>,
                          singletonRegex(tables, name))
           /\ UNCHANGED <<raw, tables>>

SingletonFind ==
    /\ ret.op = "none"
    /\ \E name \in DOMAIN tables, unitName \in UnitKeys \cup {AbsentKey} :
           /\ ret' = Call("singleton.find", name, <<>>, unitName, FALSE, <<>>,
                          singletonFind(tables, unitName, name))
           /\ UNCHANGED <<raw, tables>>

NextSingleton ==
    \/ Declare
    \/ SingletonRegister
    \/ SingletonUnregister
    \/ SingletonGet
    \/ SingletonRegex
    \/ SingletonFind
    \/ Return

SpecSingleton == InitSingleton /\ [][NextSingleton]_vars

-----------------------------------------------------------------------------
(* Vocabulary of the properties.                                            *)
One == Dec(1, <<>>)

Zero == Dec(0, <<>>)

(* the table a parse, convert or find call was given                        *)
CalledTable == tables[ret.name]

IsNumber(x) ==
    /\ x # <<>>
    /\ \A i \in 1..Len(x) : x[i] \in Digits \cup {"."}
    /\ x[1] # "." /\ x[Len(x)] # "."
    /\ Cardinality({i \in 1..Len(x) : x[i] = "."}) <= 1

BaseEntries(table) == {i \in 1..Len(table) : table[i].value.base}

(* the entries that come before position j all have an alias, if any, that  *)
(* names a key of the table                                                 *)
AliasesResolveBefore(table, j) ==
    \A i \in DOMAIN table \cap 1..(j - 1) :
        table[i].value.alias # NoKey => HasKey(table, table[i].value.alias)

Nth(S, n) == CHOOSE i \in S : Cardinality({j \in S : j < i}) = n - 1

-----------------------------------------------------------------------------
(* C1: whenever parse accepts the input and the desired unit is a key of    *)
(* the table, convert returns the requested key and the value v with        *)
(* v * desired.scale + desired.bias = main.value * main.scale + main.bias   *)
(* + (sub.value * sub.scale + sub.bias, when a sub-unit was parsed), with   *)
(* no rounding; a desired scale of 0 gives NaN or an infinity.              *)
C1_ConvertValue ==
    (ret.op = "convert" /\ HasKey(CalledTable.table, ret.unit)
       /\ parse(ret.input, CalledTable).err = null) =>
    LET p == parse(ret.input, CalledTable).res
        d == Lookup(CalledTable.table, ret.unit)
        main == Add(Mul(ToRat(p.main.value), ToRat(p.main.scale)), ToRat(p.main.bias))
        inBase == IF p.sub = null THEN main
                  ELSE Add(main, Add(Mul(ToRat(p.sub.value), ToRat(p.sub.scale)),
                                     ToRat(p.sub.bias)))
    IN  /\ ret.err = null
        /\ ret.res.unit = ret.unit
        /\ IF IsZero(d.scale)
           THEN ret.res.value =
                   (IF inBase = ToRat(d.bias) THEN NaN
                    ELSE Infinity(Sub(inBase, ToRat(d.bias)).n < 0))
           ELSE Add(Mul(ret.res.value, ToRat(d.scale)), ToRat(d.bias)) = inBase

(* a compound input converted to a unit with a scale other than 1 and a     *)
(* bias other than 0                                                        *)
C1_Witness ==
    /\ ret.op = "convert"
    /\ ret.err = null
    /\ HasKey(CalledTable.table, ret.unit)
    /\ parse(ret.input, CalledTable).res.sub # null
    /\ parse(ret.input, CalledTable).res.main.scale # One
    /\ Lookup(CalledTable.table, ret.unit).scale \notin {Zero, One}
    /\ Lookup(CalledTable.table, ret.unit).bias # Zero

(* C2: every table normalizeTable or factory returns has exactly one unit   *)
(* whose base flag is true, and its key is the returned base key.           *)
C2_ExactlyOneBase ==
    (ret.op \in {"normalizeTable", "factory"} /\ ret.err = null) =>
    /\ Cardinality(BaseEntries(ret.res.table)) = 1
    /\ \A i \in BaseEntries(ret.res.table) : ret.res.table[i].key = ret.res.base

C5_ErrorOrResult ==
    ret.op \in {"normalizeTable", "buildRegexString", "factory", "parse", "convert", "find"}
    => (~ret.thrown /\ ((ret.err = null) # (ret.res = null)))

(* the input is a number followed by the key: the number, or <<>>           *)
NumberBefore(input, key) ==
    IF /\ Len(input) > Len(key)
       /\ SubSeq(input, Len(input) - Len(key) + 1, Len(input)) = key
       /\ IsNumber(SubSeq(input, 1, Len(input) - Len(key)))
    THEN SubSeq(input, 1, Len(input) - Len(key))
    ELSE <<>>

(* C6, as claimed: for every key a of the table whose entry is an alias of  *)
(* key t, parse of a number followed by a and parse of the same number      *)
(* followed by t succeed with the same result, whose main.unit is t.        *)
C6_AliasTransparencyAlways ==
    ret.op = "parse" =>
    \A i \in DOMAIN CalledTable.table :
        LET a == CalledTable.table[i].key
            t == CalledTable.table[i].value.alias
            v == NumberBefore(ret.input, a)
        IN  (t # NoKey /\ v # <<>>) =>
            /\ ret.err = null
            /\ ret.res.main.unit = t
            /\ parse(v \o t, CalledTable) = [err |-> null, res |-> ret.res]

(* C6, amended: the same, for the alias keys a whose target t is not, in    *)
(* the normalized table, an alias of a key other than t.                    *)
C6_AliasTransparency ==
    ret.op = "parse" =>
    \A i \in DOMAIN CalledTable.table :
        LET a == CalledTable.table[i].key
            t == CalledTable.table[i].value.alias
            v == NumberBefore(ret.input, a)
        IN  (/\ t # NoKey
             /\ v # <<>>
             /\ Lookup(CalledTable.table, t).alias \in {NoKey, t}) =>
            /\ ret.err = null
            /\ ret.res.main.unit = t
            /\ parse(v \o t, CalledTable) = [err |-> null, res |-> ret.res]

(* a number followed by the alias c of the unit cm has been parsed          *)
C6_Witness ==
    /\ ret.op = "parse"
    /\ ret.input = <<"1", "c">>
    /\ Lookup(CalledTable.table, <<"c">>) # undefined
    /\ Lookup(CalledTable.table, <<"c">>).alias = <<"c", "m">>
    /\ Lookup(CalledTable.table, <<"c", "m">>).alias = NoKey
    /\ ret.err = null
    /\ ret.res.main.unit = <<"c", "m">>

IsProperPrefix(p, k) == Len(p) < Len(k) /\ SubSeq(k, 1, Len(p)) = p

LongestFirst(units) ==
    \A i, j \in DOMAIN units : i < j => Len(units[i]) >= Len(units[j])

(* C7: the alternation buildRegexString returns lists the keys of the table *)
(* longest first, in the tables of the registry as well; and when a key of  *)
(* the table is a proper prefix of another key, a number followed by the    *)
(* longer key is parsed as that number of the longer key (of the key it is  *)
(* an alias of), with no sub-unit.                                          *)
C7_PrefixSafety ==
    /\ (ret.op = "buildRegexString" /\ ret.err = null) =>
           /\ LongestFirst(ret.res.alternation)
           /\ Len(ret.res.alternation) = Len(ret.arg)
           /\ \A i \in DOMAIN ret.arg :
                  \E j \in DOMAIN ret.res.alternation :
                      ret.res.alternation[j] = ret.arg[i].key
    /\ \A name \in Names :
           tables[name] # undefined => LongestFirst(tables[name].regexString.alternation)
    /\ ret.op = "parse" =>
           \A i, j \in DOMAIN CalledTable.table :
               LET short == CalledTable.table[i].key
                   long == CalledTable.table[j]
                   v == NumberBefore(ret.input, long.key)
               IN  (IsProperPrefix(short, long.key) /\ v # <<>>) =>
                   /\ ret.err = null
                   /\ ret.res.main.unit =
                          (IF long.value.alias # NoKey THEN long.value.alias ELSE long.key)
                   /\ ret.res.main.value = parseFloat(v)
                   /\ ret.res.sub = null

(* 1cm has been parsed with a table that declares c with the minor unit m   *)
(* before it declares cm                                                    *)
C7_Witness ==
    /\ ret.op = "parse"
    /\ ret.input = <<"1", "c", "m">>
    /\ Len(CalledTable.table) = 3
    /\ CalledTable.table[1].key = <<"c">>
    /\ CalledTable.table[1].value.minor = <<"m">>
    /\ CalledTable.table[2].key = <<"c", "m">>
    /\ CalledTable.regexString.alternation[1] = <<"c", "m">>
    /\ ret.err = null
    /\ ret.res.main.unit = <<"c", "m">>

(* C8: an input that is only a decimal number is parsed as that number of   *)
(* the base key, with the scale and the bias of the base entry, and convert *)
(* of it to the base key returns the number unchanged.                      *)
C8_UnitlessIsBase ==
    /\ (ret.op = "parse" /\ IsNumber(trim(ret.input))) =>
           /\ ret.err = null
           /\ ret.res.main.unit = CalledTable.base
           /\ ret.res.main.value = parseFloat(trim(ret.input))
           /\ ret.res.main.scale = Lookup(CalledTable.table, CalledTable.base).scale
           /\ ret.res.main.bias = Lookup(CalledTable.table, CalledTable.base).bias
    /\ (ret.op = "convert" /\ IsNumber(trim(ret.input)) /\ ret.unit = CalledTable.base) =>
           /\ ret.err = null
           /\ ret.res = [unit |-> CalledTable.base,
                         value |-> ToRat(parseFloat(trim(ret.input)))]

(* C9: a successful parse returns the base key of the table as base; sub is *)
(* null when no minor value was captured; and when one was captured and the *)
(* resolved main unit declares the minor key m, sub is the minor number of  *)
(* m with the scale and the bias of entry m, 1 and 0 when m is not a key.   *)
C9_SubUnit ==
    (ret.op = "parse" /\ ret.err = null) =>
    LET captured == match(trim(ret.input), CalledTable.regexString.alternation).minorValue
        m == Lookup(CalledTable.table, ret.res.main.unit).minor
        entry == Lookup(CalledTable.table, m)
    IN  /\ ret.res.base = CalledTable.base
        /\ captured = <<>> => ret.res.sub = null
        /\ (captured # <<>> /\ m # NoKey) =>
               ret.res.sub = [unit  |-> m,
                              value |-> parseFloat(captured),
                              scale |-> IF entry = undefined THEN One ELSE entry.scale,
                              bias  |-> IF entry = undefined THEN Zero ELSE entry.bias]

(* s is a number, then optionally a key, then optionally a number, with any *)
(* white space around the key                                               *)
InShape(s, keys) ==
    \E a \in 1..Len(s) :
        /\ IsNumber(SubSeq(s, 1, a))
        /\ \E u \in keys \cup {NoKey} :
               /\ StartsWith(s, SpaceRunEnd(s, a + 1), u)
               /\ LET d == SpaceRunEnd(s, SpaceRunEnd(s, a + 1) + Len(u))
                  IN  \/ d = Len(s) + 1
                      \/ \E e \in d..Len(s) :
                             /\ IsNumber(SubSeq(s, d, e))
                             /\ SpaceRunEnd(s, e + 1) = Len(s) + 1

KeySet(table) == {table[i].key : i \in DOMAIN table}

(* C10: an input that, trimmed, is not of the shape number, optional key of *)
(* the table, optional number makes parse and convert return the error      *)
(* 'Invalid input format or no match found.' and no result.                 *)
C10_InvalidInput ==
    (/\ ret.op \in {"parse", "convert"}
     /\ ~InShape(trim(ret.input), KeySet(CalledTable.table))) =>
    (ret.err = InvalidInput /\ ret.res = null)

(* convert has refused an input that puts the unit before the number, for a *)
(* unit the table has                                                       *)
C10_Witness ==
    /\ ret.op = "convert"
    /\ ret.input = <<"m", "1">>
    /\ HasKey(CalledTable.table, <<"m">>)
    /\ HasKey(CalledTable.table, ret.unit)
    /\ ret.err = InvalidInput
    /\ ret.res = null

(* the input, trimmed, writes a number of the base unit: the number with    *)
(* the base key after it or with no unit; <<>> otherwise                    *)
BaseValue(input, base) ==
    IF IsNumber(trim(input)) THEN trim(input) ELSE NumberBefore(trim(input), base)

(* C12: convert to the base unit of a value written in the base unit, with  *)
(* the base key or with no unit, returns exactly that value.                *)
C12_BaseIdentity ==
    (/\ ret.op = "convert"
     /\ ret.unit = CalledTable.base
     /\ BaseValue(ret.input, CalledTable.base) # <<>>) =>
    /\ ret.err = null
    /\ ret.res.unit = CalledTable.base
    /\ ret.res.value = ToRat(parseFloat(BaseValue(ret.input, CalledTable.base)))

(* C13: in every table normalizeTable or factory returns, the entry of the  *)
(* base key has scale 1 and bias 0.                                         *)
C13_BaseScaleBias ==
    (ret.op \in {"normalizeTable", "factory"} /\ ret.err = null) =>
    /\ Lookup(ret.res.table, ret.res.base).scale = One
    /\ Lookup(ret.res.table, ret.res.base).bias = Zero

(* C11: a value written in the base unit, converted to a unit of the table  *)
(* and converted back from that unit to the base unit, is the value again.  *)
C11_RoundTrip ==
    (/\ ret.op = "convert"
     /\ ret.arg # <<>>
     /\ BaseValue(ret.arg, CalledTable.base) # <<>>) =>
    /\ ret.err = null
    /\ ret.res.value = ToRat(parseFloat(BaseValue(ret.arg, CalledTable.base)))

(* the greatest number of digits after the decimal point among the scales   *)
(* of a normalized table, which are the raw scales rounded to 15 digits     *)
RECURSIVE MaxScaleDigits(_)
MaxScaleDigits(table) ==
    IF table = <<>> THEN 0
    ELSE Max(Len(table[1].value.scale.frac), MaxScaleDigits(Tail(table)))

(* C14: the precision of a normalized table is the greatest number of       *)
(* digits after the decimal point among its rounded scales, clamped to      *)
(* 6..15.                                                                   *)
C14_Precision ==
    (ret.op \in {"normalizeTable", "factory"} /\ ret.err = null) =>
    /\ ret.res.precision \in 6..15
    /\ ret.res.precision = Max(6, Min(15, MaxScaleDigits(ret.res.table)))

(* the raw table is one factory builds a ConversionTable from               *)
ValidRaw(rawTable, name) == factory(rawTable, name).err = null

(* C15: register on a name that is registered returns the 'already          *)
(* registered' error and leaves the registry as it was when force is false; *)
(* with force and a valid raw table it succeeds, and get(name) then returns *)
(* the table built from the new raw table alone: the keys of its unit table *)
(* are the keys of the new raw table.                                       *)
C15_RegisterRegistered ==
    [][(ret.op = "none" /\ ret'.op = "register" /\ tables[ret'.name] # undefined) =>
          IF ~ret'.flag
          THEN /\ ret'.err = AlreadyRegistered(ret'.name)
               /\ ret'.res = null
               /\ tables' = tables
          ELSE ValidRaw(ret'.arg, ret'.name) =>
               /\ ret'.err = null
               /\ ret'.res = Registered(ret'.name)
               /\ get(tables', ret'.name).err = null
               /\ get(tables', ret'.name).res.table = normalizeTable(ret'.arg).res.table
               /\ KeySet(get(tables', ret'.name).res.table) = KeySet(ret'.arg)]_vars

(* a table with the units c and m has been replaced, with force, by a table *)
(* with the unit cm alone                                                   *)
C15_Witness ==
    /\ ret.op = "register"
    /\ ret.flag
    /\ ret.err = null
    /\ ret.before # undefined
    /\ KeySet(ret.before.table) = {<<"c">>, <<"m">>}
    /\ KeySet(tables[ret.name].table) = {<<"c", "m">>}

(* C16: a register call that gets as far as factory (force is true, or the  *)
(* name holds no table) with a raw table factory rejects returns factory's  *)
(* error and no result, and get(name) returns what it returned before the   *)
(* call: the table held before, or 'not found' when there was none.         *)
C16_FailedRegister ==
    [][(/\ ret.op = "none"
        /\ ret'.op = "register"
        /\ ret'.flag \/ tables[ret'.name] = undefined
        /\ ~ValidRaw(ret'.arg, ret'.name)) =>
          /\ ret'.err = factory(ret'.arg, ret'.name).err
          /\ ret'.err # null
          /\ ret'.res = null
          /\ get(tables', ret'.name) = get(tables, ret'.name)
          /\ tables' = tables]_vars

(* register with force has failed on a name that holds a table, with an     *)
(* error of normalizeTable, and the name holds the table still              *)
C16_Witness ==
    /\ ret.op = "register"
    /\ ret.flag
    /\ ret.err \in {NoBaseKey, ErrorNormalizing} \cup
                   {DuplicateBaseKey(<<"c", "m">>, <<"m">>)}
    /\ ret.before # undefined
    /\ get(tables, ret.name) = [err |-> null, res |-> ret.before]

(* the table is one factory has built whole: its base is a key of its unit  *)
(* table, its pattern is the one buildRegexString builds from its unit      *)
(* table and lists exactly its keys, its precision is within 6..15          *)
FullyConstructed(t) ==
    /\ DOMAIN t = {"table", "base", "regexString", "tableName", "precision"}
    /\ HasKey(t.table, t.base)
    /\ t.regexString = buildRegexString(t.table).res
    /\ Len(t.regexString.alternation) = Len(t.table)
    /\ {t.regexString.alternation[i] : i \in DOMAIN t.regexString.alternation}
         = KeySet(t.table)
    /\ t.precision \in MinPrecision..RoundDigits

(* C17: in every state, every table the registry holds is fully             *)
(* constructed, and so is every table get returns for a registered name and *)
(* the table every unit find returns is taken from.                         *)
C17_FullyConstructed ==
    /\ \A name \in DOMAIN tables :
           tables[name] # undefined => FullyConstructed(tables[name])
    /\ (ret.op = "get" /\ ret.name \in DOMAIN tables /\ ret.err = null) =>
           FullyConstructed(ret.res)
    /\ (ret.op = "find" /\ ret.name \in DOMAIN tables /\ ret.err = null) =>
           /\ tables[ret.name] # undefined
           /\ HasKey(tables[ret.name].table, ret.unit)

(* get has returned a table with two units while the raw table the caller   *)
(* holds is one factory rejects                                             *)
C17_Witness ==
    /\ ret.op = "get"
    /\ ret.err = null
    /\ ret.name \in DOMAIN tables
    /\ Len(ret.res.table) = 2
    /\ raw \notin {r \in RegistryTables : ValidRaw(r, ret.name)}

(* the step is a register of the name that returned the success message, or *)
(* an unregister of the name that returned the success message              *)
Successful(op, name) ==
    /\ ret.op = "none"
    /\ ret'.op = op
    /\ ret'.name = name
    /\ ret'.err = null
    /\ ret'.res \in {Registered(name), Unregistered(name)}

(* C18: what the registry holds under a name changes only in a successful   *)
(* register of that name or an unregister of that name; every other step    *)
(* (calls on other names, rejected and failed registers, get, find, parse,  *)
(* convert) leaves it as it is. The tables held under two names are never   *)
(* one instance: each is the instance constructed with its own name.        *)
C18_Frame ==
    [][/\ \A name \in DOMAIN tables :
              tables'[name] # tables[name] =>
                  Successful("register", name) \/ Successful("unregister", name)
       /\ \A n1, n2 \in DOMAIN tables :
              (n1 # n2 /\ tables'[n1] # undefined /\ tables'[n2] # undefined) =>
                  /\ tables'[n1].tableName = n1
                  /\ tables'[n2].tableName = n2
                  /\ tables'[n1] # tables'[n2]]_vars

(* B has been registered with the raw table A was registered with: both     *)
(* names hold a table with the same units                                   *)
C18_Witness ==
    /\ ret.op = "register"
    /\ ret.name = "B"
    /\ ret.err = null
    /\ tables["A"] # undefined
    /\ tables["B"] # undefined
    /\ tables["A"].table = tables["B"].table
    /\ Len(tables["A"].table) = 2

(* get(name) and find(unit, name), for every unit, return the 'not found'   *)
(* error of the table                                                       *)
NotFound(tbls, name) ==
    /\ get(tbls, name) = [err |-> TableNotFound(name), res |-> null]
    /\ \A unitKey \in UnitKeys \cup {AbsentKey} :
           find(tbls, unitKey, name) = [err |-> TableNotFound(name), res |-> null]

(* C19: after an unregister of a name that returned the success message,    *)
(* get and find return "Table '<name>' not found." for that name, and go on *)
(* doing so until a register of the name succeeds; after a successful       *)
(* register get returns the table, and goes on returning it until an        *)
(* unregister of the name.                                                  *)
C19_UnregisterThenNotFound ==
    [][\A name \in LookupNames :
          /\ Successful("unregister", name) => NotFound(tables', name)
          /\ (NotFound(tables, name) /\ ~Successful("register", name)) =>
                 NotFound(tables', name)
          /\ Successful("register", name) =>
                 /\ get(tables', name).err = null
                 /\ get(tables', name).res = factory(ret'.arg, name).res
          /\ (/\ get(tables, name).err = null
              /\ ~Successful("register", name)
              /\ ~Successful("unregister", name)) =>
                 get(tables', name) = get(tables, name)]_vars

(* C20: unregister of a name the registry holds no table under returns no   *)
(* error when verbose is false and the error "Table '<name>' is not         *)
(* registered." when verbose is true, and leaves the registry as it was.    *)
C20_UnregisterUnregistered ==
    [][(/\ ret.op = "none"
        /\ ret'.op = "unregister"
        /\ ret'.name \notin DOMAIN tables \/ tables[ret'.name] = undefined) =>
          /\ ret'.err = (IF ret'.flag THEN NotRegistered(ret'.name) ELSE null)
          /\ tables' = tables]_vars

(* an entry of the table has an alias that is not a key of the table        *)
HasDanglingAlias(table) ==
    \E i \in DOMAIN table :
        table[i].value.alias # NoKey /\ ~HasKey(table, table[i].value.alias)

(* C21: a register call that gets as far as factory with a raw table that   *)
(* has an alias of an absent key fails and stores nothing; in every table   *)
(* the registry holds each alias is a key of the table; find never returns  *)
(* the 'Alias does not map to a valid unit' error.                          *)
C21_DanglingAlias ==
    /\ (/\ ret.op = "register"
        /\ ret.flag \/ ret.before = undefined
        /\ HasDanglingAlias(ret.arg)) =>
           /\ ret.err # null
           /\ ret.res = null
           /\ tables[ret.name] = ret.before
    /\ \A name \in DOMAIN tables :
           tables[name] # undefined => ~HasDanglingAlias(tables[name].table)
    /\ ret.op = "find" => ret.err # AliasNotValid(ret.unit)

(* the registry holds a table under the name                                *)
IsRegistered(name) == name \in DOMAIN tables /\ tables[name] # undefined

(* C22: find returns the 'table not found' error when the name is not       *)
(* registered, the 'unit not found' error when the key is not in the table, *)
(* and otherwise a unit with a scale and a bias; for a key that is an alias *)
(* it returns the scale, bias and term it returns for the key the alias     *)
(* names.                                                                   *)
C22_Find ==
    ret.op = "find" =>
        IF ~IsRegistered(ret.name)
        THEN /\ ~ret.thrown
             /\ ret.err = TableNotFound(ret.name)
             /\ ret.res = null
        ELSE IF ~HasKey(CalledTable.table, ret.unit)
        THEN /\ ret.err = UnitNotFoundInTable(ret.unit, ret.name)
             /\ ret.res = null
        ELSE /\ ret.err = null
             /\ DOMAIN ret.res = {"scale", "bias", "term"}
             /\ ret.res.scale # undefined
             /\ ret.res.bias # undefined
             /\ Lookup(CalledTable.table, ret.unit).alias # NoKey =>
                    ret.res = find(tables, Lookup(CalledTable.table, ret.unit).alias,
                                   ret.name).res

(* s is prefix(suffix): a prefix without '(' and a suffix without ')', both *)
(* not empty; p is the position of the '('                                  *)
IsParenthesized(s, p) ==
    /\ p \in 2..(Len(s) - 2)
    /\ s[p] = "("
    /\ s[Len(s)] = ")"
    /\ \A j \in 1..(p - 1) : s[j] # "("
    /\ \A j \in (p + 1)..(Len(s) - 1) : s[j] # ")"

(* s is a/b: a without '/' and b, both not empty; p is the position of the  *)
(* '/'                                                                      *)
IsSlashed(s, p) ==
    /\ p \in 2..(Len(s) - 1)
    /\ s[p] = "/"
    /\ \A j \in 1..(p - 1) : s[j] # "/"

(* pair is what the rules of _parseTerm, in their order, give for term      *)
TermRule(term, pair) ==
    IF term.type = "array" THEN pair = term.items
    ELSE IF term.type # "string" \/ term.chars = <<>> THEN pair = <<>>
    ELSE IF \E p \in DOMAIN term.chars : IsParenthesized(term.chars, p)
    THEN \E p \in DOMAIN term.chars :
             /\ IsParenthesized(term.chars, p)
             /\ pair = <<SubSeq(term.chars, 1, p - 1),
                         SubSeq(term.chars, 1, p - 1)
                           \o SubSeq(term.chars, p + 1, Len(term.chars) - 1)>>
    ELSE IF \E p \in DOMAIN term.chars : IsSlashed(term.chars, p)
    THEN \E p \in DOMAIN term.chars :
             /\ IsSlashed(term.chars, p)
             /\ pair = <<SubSeq(term.chars, 1, p - 1),
                         SubSeq(term.chars, p + 1, Len(term.chars))>>
    ELSE pair = <<term.chars, term.chars>>

(* C23: _parseTerm returns an array unchanged, [prefix, prefix+suffix] for  *)
(* 'prefix(suffix)', otherwise [a, b] for 'a/b', otherwise [t, t] for a     *)
(* string t that is not empty, and null for an absent or empty term; the    *)
(* term of a normalized entry is what these rules give for the raw term.    *)
C23_ParseTerm ==
    /\ ret.op = "parseTerm" =>
           TermRule(Lookup(ret.arg, ret.unit).term, ret.res.term)
    /\ (ret.op = "normalizeTable" /\ ret.err = null) =>
           \A i \in DOMAIN ret.res.table :
               TermRule(ret.arg[i].value.term, ret.res.table[i].value.term)

(* _parseTerm has been given 'a/(a)', which is of both shapes, and has      *)
(* returned ['a/', 'a/a']                                                   *)
C23_Witness ==
    /\ ret.op = "parseTerm"
    /\ Lookup(ret.arg, ret.unit).term = TermString(<<"a", "/", "(", "a", ")">>)
    /\ ret.res.term = <<<<"a", "/">>, <<"a", "/", "a">>>>

(* C24: in the singleton registry a successful register of one name leaves  *)
(* what get, regex and find answer for every other registered name as it    *)
(* was.                                                                     *)
C24_SingletonFrame ==
    [][(ret.op = "none" /\ ret'.op = "singleton.register" /\ ret'.err = null) =>
          \A name \in DOMAIN tables \ {ret'.name} :
              tables[name] # undefined =>
                  /\ singletonGet(tables', name) = singletonGet(tables, name)
                  /\ singletonRegex(tables', name) = singletonRegex(tables, name)
                  /\ \A unitName \in UnitKeys \cup {AbsentKey} :
                         singletonFind(tables', unitName, name)
                           = singletonFind(tables, unitName, name)]_vars

(* the entry of the raw table declares an alias of a key of the table whose *)
(* entry declares no alias                                                  *)
IsAliasOfPrimary(table, entry) ==
    /\ entry.value.alias # NoKey
    /\ HasKey(table, entry.value.alias)
    /\ Lookup(table, entry.value.alias).alias = NoKey

(* the normalized entries have the same scale, bias, term and minor         *)
SameUnit(e1, e2) ==
    /\ e1.scale = e2.scale
    /\ e1.bias = e2.bias
    /\ e1.term = e2.term
    /\ e1.minor = e2.minor

(* C25: in every table normalizeTable or factory returns, the entry of a    *)
(* key whose raw entry is an alias of a primary entry t has the scale,      *)
(* bias, term and minor of the normalized entry of t, and alias t, in       *)
(* every key order and whatever the raw alias entry declares besides.       *)
C25_AliasCopy ==
    (ret.op \in {"normalizeTable", "factory"} /\ ret.err = null) =>
    \A i \in DOMAIN ret.arg :
        IsAliasOfPrimary(ret.arg, ret.arg[i]) =>
            /\ SameUnit(Lookup(ret.res.table, ret.arg[i].key),
                        Lookup(ret.res.table, ret.arg[i].value.alias))
            /\ Lookup(ret.res.table, ret.arg[i].key).alias = ret.arg[i].value.alias

(* C26: in every table normalizeTable or factory returns, the entry of a    *)
(* key whose raw entry declares no alias has alias null, in every key       *)
(* order.                                                                   *)
C26_PrimaryAlias ==
    (ret.op \in {"normalizeTable", "factory"} /\ ret.err = null) =>
    \A i \in DOMAIN ret.arg :
        ret.arg[i].value.alias = NoKey =>
            Lookup(ret.res.table, ret.arg[i].key).alias = NoKey

(* C27: when normalizeTable, factory or register has returned, with or      *)
(* without an error, the raw table the caller passed has the keys and the   *)
(* entries, field by field, that it had at the call.                        *)
C27_RawUnchanged ==
    ret.op \in {"normalizeTable", "factory", "register"} => raw = ret.arg

(* the groups the pattern of the called table captures in the input of the  *)
(* call                                                                     *)
CalledMatch == match(trim(ret.input), CalledTable.regexString.alternation)

(* parse has returned a result for an input with a minor value, and the     *)
(* entry of the unit it resolved declares no minor key                      *)
MinorValueWithoutMinorKey ==
    /\ ret.op = "parse"
    /\ ret.err = null
    /\ CalledMatch.minorValue # <<>>
    /\ HasKey(CalledTable.table, ret.res.main.unit)
    /\ Lookup(CalledTable.table, ret.res.main.unit).minor = NoKey

(* C28: when the input has a minor value and the entry of the resolved main *)
(* unit declares no minor key, the sub of the result of parse is null and   *)
(* the result is the one parse gives for the input without the minor value. *)
C28_NoMinorKey ==
    MinorValueWithoutMinorKey =>
        /\ ret.res.sub = null
        /\ ret.res = parseMatch([CalledMatch EXCEPT !.minorValue = <<>>],
                                CalledTable).res

(* C29: convert returns the error of parse, with a null result, whenever    *)
(* parse of the input fails, also when the desired unit is not a key of the *)
(* table; it returns "Unit '<key>' not found.", with a null result, exactly *)
(* when parse succeeds and the desired unit is not a key of the table.      *)
C29_ConvertErrors ==
    ret.op = "convert" =>
        /\ parse(ret.input, CalledTable).err # null =>
               /\ ret.err = parse(ret.input, CalledTable).err
               /\ ret.res = null
        /\ ret.err = UnitNotFound(ret.unit) <=>
               /\ parse(ret.input, CalledTable).err = null
               /\ ~HasKey(CalledTable.table, ret.unit)
        /\ ret.err = UnitNotFound(ret.unit) => ret.res = null

(* C30: when normalizeTable has returned, a second normalizeTable of the    *)
(* same raw table object returns the same error or the same normalized      *)
(* entries, base key and precision; when register with force has returned,  *)
(* a second register with force of the same object returns the same pair    *)
(* and leaves the same tables in the registry.                              *)
C30_Repeatable ==
    /\ ret.op = "normalizeTable" =>
           /\ normalizeTable(raw).err = ret.err
           /\ normalizeTable(raw).res = ret.res
    /\ (ret.op = "register" /\ ret.flag) =>
           /\ register(tables, ret.name, raw, TRUE).err = ret.err
           /\ register(tables, ret.name, raw, TRUE).res = ret.res
           /\ register(tables, ret.name, raw, TRUE).tables = tables

====
